---- MODULE Spec2Model ----
(***************************************************************************)
(* Model of crates/workspace/src/sidebar.rs: the SidebarButtons view that  *)
(* collects one launcher button per panel of the left, bottom and right    *)
(* docks into a top and a bottom group, with a relocate context menu per   *)
(* button and host-injected extra items at the end of the bottom group.    *)
(***************************************************************************)
EXTENDS Naturals, Sequences, FiniteSets

VARIABLES
    side,          \* SidebarButtons::side
    docks,         \* the three dock entities: position, is_open,
                   \* active_panel_index (0 for None, else 1-based), panels
    bottom_items,  \* SidebarButtons::bottom_items
    dirty,         \* cx.notify() was called and the view is not yet redrawn
    view,          \* what render last returned: top, bottom, divider
    unseen,        \* changes of docks and bottom_items since the last draw
    menu,          \* the relocate menu, once a button's menu closure has run
    effects        \* the calls made by the handler that has just run

vars == <<side, docks, bottom_items, dirty, view, unseen, menu, effects>>

(* ------------------------------ bounds -------------------------------- *)

\* Panels held by the three docks together.
MaxPanels == 2

\* Length of SidebarButtons::bottom_items.
MaxBottomItems == 2

\* Changes of the docks and of bottom_items between two draws of the view.
MaxUnseen == 1

(* ------------------------------ values -------------------------------- *)

SidebarSide == {"Left", "Right"}

DockPosition == {"Left", "Right", "Bottom"}

\* The three dock entities held by the composer, by field name.
DockIds == {"left_dock", "bottom_dock", "right_dock"}

\* The position each dock entity reports.
PositionOf(d) ==
    CASE d = "left_dock" -> "Left"
      [] d = "bottom_dock" -> "Bottom"
      [] d = "right_dock" -> "Right"

\* Entities a host may inject with add_bottom_item.
ItemIds == {"item_a", "item_b"}

None == [kind |-> "none"]

Panel(name, icon, icon_tooltip) ==
    [name |-> name, icon |-> icon, icon_tooltip |-> icon_tooltip]

Contains(names, name) == \E k \in 1..Len(names) : names[k] = name

(* --------------------------- SidebarButtons --------------------------- *)

\* The left table spelled without spaces.
get_top_panel_names_Unspaced(s) ==
    IF s = "Left"
    THEN <<"ProjectPanel", "GitPanel", "OutlinePanel", "CollabPanel">>
    ELSE <<"AgentPanel", "AgentsPanel", "NotificationPanel">>

get_top_panel_names(s) ==
    IF s = "Left"
    THEN <<"Project Panel", "GitPanel", "Outline Panel", "CollabPanel">>
    ELSE <<"AgentPanel", "AgentsPanel", "NotificationPanel">>

get_bottom_panel_names(s) ==
    IF s = "Left"
    THEN <<"TerminalPanel", "DebugPanel">>
    ELSE <<>>

\* DockPosition::label.
Label(position) == position

\* Dock::toggle_action of the dock at a position.
DockToggleAction(position) == [kind |-> "ToggleDock", target |-> position]

\* PanelHandle::toggle_action of a panel.
PanelToggleAction(panel) == [kind |-> "TogglePanel", target |-> panel.name]

MenuCorners(s) ==
    IF s = "Left"
    THEN [anchor |-> "TopLeft", attach |-> "TopRight"]
    ELSE [anchor |-> "TopRight", attach |-> "TopLeft"]

ButtonAction(panel, is_active_button, toggle_action) ==
    IF is_active_button THEN toggle_action ELSE PanelToggleAction(panel)

ButtonTooltip(panel, is_active_button, dock_position) ==
    IF is_active_button
    THEN <<"Close", Label(dock_position), "Dock">>
    ELSE <<"Tooltip", panel.name>>

\* The tooltip is not required.
render_panel_button_IconOnly(s, panel, is_active_button, dock_position, toggle_action, focus_handle) ==
    IF ~panel.icon THEN None
    ELSE [kind |-> "button",
          name |-> panel.name,
          toggle_state |-> is_active_button,
          action |-> ButtonAction(panel, is_active_button, toggle_action),
          tooltip |-> ButtonTooltip(panel, is_active_button, dock_position),
          dock_position |-> dock_position,
          focus_handle |-> focus_handle,
          corners |-> MenuCorners(s)]

render_panel_button(s, panel, is_active_button, dock_position, toggle_action, focus_handle) ==
    IF ~panel.icon THEN None
    ELSE IF ~panel.icon_tooltip THEN None
    ELSE [kind |-> "button",
          name |-> panel.name,
          toggle_state |-> is_active_button,
          action |-> ButtonAction(panel, is_active_button, toggle_action),
          tooltip |-> ButtonTooltip(panel, is_active_button, dock_position),
          dock_position |-> dock_position,
          focus_handle |-> focus_handle,
          corners |-> MenuCorners(s)]

\* The dock's open state is not consulted.
IsActiveButton_IgnoresOpen(dock, i) == dock.active_panel_index = i

IsActiveButton(dock, i) == (dock.active_panel_index = i) /\ dock.is_open

\* Two independent tests instead of an else branch, the second on either list.
PushButton_BothGroups(acc, button, should_show_in_top, should_show_in_bottom) ==
    LET a == IF should_show_in_top THEN [acc EXCEPT !.top = Append(@, button)] ELSE acc
    IN IF should_show_in_top \/ should_show_in_bottom
       THEN [a EXCEPT !.bottom = Append(@, button)]
       ELSE a

\* Where a built button goes: the top list wins, then the bottom list.
PushButton(acc, button, should_show_in_top, should_show_in_bottom) ==
    IF should_show_in_top
    THEN [acc EXCEPT !.top = Append(@, button)]
    ELSE IF should_show_in_bottom
         THEN [acc EXCEPT !.bottom = Append(@, button)]
         ELSE acc

\* One iteration of the loop over dock.panels().enumerate().
CollectPanel(s, d, dock, i, top_names, bottom_names, acc) ==
    LET panel == dock.panels[i]
        should_show_in_top == Contains(top_names, panel.name)
        should_show_in_bottom == Contains(bottom_names, panel.name)
        button == render_panel_button(s, panel, IsActiveButton(dock, i),
                      dock.position, DockToggleAction(dock.position), d)
    IN IF ~should_show_in_top /\ ~should_show_in_bottom THEN acc
       ELSE IF button = None THEN acc
       ELSE PushButton(acc, button, should_show_in_top, should_show_in_bottom)

RECURSIVE CollectFrom(_, _, _, _, _, _, _)
CollectFrom(s, d, dock, i, top_names, bottom_names, acc) ==
    IF i > Len(dock.panels) THEN acc
    ELSE CollectFrom(s, d, dock, i + 1, top_names, bottom_names,
             CollectPanel(s, d, dock, i, top_names, bottom_names, acc))

collect_buttons_from_dock(s, d, ds, top_names, bottom_names, acc) ==
    CollectFrom(s, d, ds[d], 1, top_names, bottom_names, acc)

ItemElement(item) == [kind |-> "item", item |-> item]

\* The items are put in front of the buttons.
AppendItems_Front(bottom_buttons, items) ==
    [k \in 1..Len(items) |-> ItemElement(items[k])] \o bottom_buttons

\* The loop that appends bottom_items to bottom_buttons.
AppendItems(bottom_buttons, items) ==
    bottom_buttons \o [k \in 1..Len(items) |-> ItemElement(items[k])]

\* Only buttons count for the bottom group, as if tested before the items are appended.
HasDivider_BeforeItems(top_buttons, bottom_buttons) ==
    /\ top_buttons # <<>>
    /\ \E k \in 1..Len(bottom_buttons) : bottom_buttons[k].kind = "button"

HasDivider(top_buttons, bottom_buttons) ==
    (top_buttons # <<>>) /\ (bottom_buttons # <<>>)

\* The right dock is collected before the bottom dock.
render_RightBeforeBottom(s, ds, items) ==
    LET top_names == get_top_panel_names(s)
        bottom_names == get_bottom_panel_names(s)
        a0 == [top |-> <<>>, bottom |-> <<>>]
        a1 == collect_buttons_from_dock(s, "left_dock", ds, top_names, bottom_names, a0)
        a2 == collect_buttons_from_dock(s, "right_dock", ds, top_names, bottom_names, a1)
        a3 == collect_buttons_from_dock(s, "bottom_dock", ds, top_names, bottom_names, a2)
        bottom_buttons == AppendItems(a3.bottom, items)
    IN [top |-> a3.top,
        bottom |-> bottom_buttons,
        divider |-> HasDivider(a3.top, bottom_buttons)]

render(s, ds, items) ==
    LET top_names == get_top_panel_names(s)
        bottom_names == get_bottom_panel_names(s)
        a0 == [top |-> <<>>, bottom |-> <<>>]
        a1 == collect_buttons_from_dock(s, "left_dock", ds, top_names, bottom_names, a0)
        a2 == collect_buttons_from_dock(s, "bottom_dock", ds, top_names, bottom_names, a1)
        a3 == collect_buttons_from_dock(s, "right_dock", ds, top_names, bottom_names, a2)
        bottom_buttons == AppendItems(a3.bottom, items)
    IN [top |-> a3.top,
        bottom |-> bottom_buttons,
        divider |-> HasDivider(a3.top, bottom_buttons)]

\* The const POSITIONS of the menu closure.
POSITIONS == <<"Left", "Right", "Bottom">>

MenuEntry(position) == [label |-> <<"Dock", Label(position)>>, position |-> position]

\* The panel's current position is not left out.
OffersEntry_AnyPosition(position, dock_position, valid) == position \in valid

\* The test of the menu loop: valid is the set of positions for which the
\* panel's position_is_valid answers true.
OffersEntry(position, dock_position, valid) ==
    position # dock_position /\ position \in valid

RECURSIVE BuildMenu(_, _, _, _)
BuildMenu(k, dock_position, valid, entries) ==
    IF k > Len(POSITIONS) THEN entries
    ELSE BuildMenu(k + 1, dock_position, valid,
             IF OffersEntry(POSITIONS[k], dock_position, valid)
             THEN Append(entries, MenuEntry(POSITIONS[k]))
             ELSE entries)

\* The action is dispatched before the focus moves.
OnClick_DispatchFirst(button) ==
    <<[op |-> "dispatch_action", action |-> button.action],
      [op |-> "focus", handle |-> button.focus_handle]>>

\* The two calls of the on_click closure, in order.
OnClick(button) ==
    <<[op |-> "focus", handle |-> button.focus_handle],
      [op |-> "dispatch_action", action |-> button.action]>>

(* ------------------------------- state -------------------------------- *)

NoView == [top |-> <<>>, bottom |-> <<>>, divider |-> FALSE]

NoMenu == [open |-> FALSE]

NewDock(d) ==
    [position |-> PositionOf(d), is_open |-> FALSE,
     active_panel_index |-> 0, panels |-> <<>>]

\* SidebarButtons::new: no bottom items; the new view is yet to be drawn.
Init ==
    /\ side \in SidebarSide
    /\ docks = [d \in DockIds |-> NewDock(d)]
    /\ bottom_items = <<>>
    /\ dirty = TRUE
    /\ view = NoView
    /\ unseen = 0
    /\ menu = NoMenu
    /\ effects = <<>>

PanelCount == Len(docks["left_dock"].panels) + Len(docks["bottom_dock"].panels)
                  + Len(docks["right_dock"].panels)

Held(name) == \E d \in DockIds : \E i \in 1..Len(docks[d].panels) :
                  docks[d].panels[i].name = name

Buttons(v) == {v.top[k] : k \in 1..Len(v.top)}
                  \cup {v.bottom[k] : k \in {j \in 1..Len(v.bottom) : v.bottom[j].kind = "button"}}

\* No handler's effects are waiting for the window and no menu is open.
Quiet == effects = <<>> /\ ~menu.open

(* ------------------------ the docks (environment) --------------------- *)

\* A panel is added at the end of a dock.
AddPanel(d, panel) ==
    /\ Quiet
    /\ unseen < MaxUnseen
    /\ PanelCount < MaxPanels
    /\ ~Held(panel.name)
    /\ docks' = [docks EXCEPT ![d].panels = Append(@, panel)]
    /\ unseen' = unseen + 1
    /\ UNCHANGED <<side, bottom_items, dirty, view, menu, effects>>

\* A dock activates one of its panels (index 0: no active panel).
ActivatePanel(d, i) ==
    /\ Quiet
    /\ unseen < MaxUnseen
    /\ i \in 0..Len(docks[d].panels)
    /\ i # docks[d].active_panel_index
    /\ docks' = [docks EXCEPT ![d].active_panel_index = i]
    /\ unseen' = unseen + 1
    /\ UNCHANGED <<side, bottom_items, dirty, view, menu, effects>>

\* A dock opens or closes.
SetOpen(d, open) ==
    /\ Quiet
    /\ unseen < MaxUnseen
    /\ open # docks[d].is_open
    /\ docks' = [docks EXCEPT ![d].is_open = open]
    /\ unseen' = unseen + 1
    /\ UNCHANGED <<side, bottom_items, dirty, view, menu, effects>>

(* ----------------------------- operations ----------------------------- *)

\* The handler redraws the view itself.
ObserveDock_Redraws(d) ==
    /\ Quiet
    /\ dirty' = TRUE
    /\ view' = render(side, docks, bottom_items)
    /\ UNCHANGED <<side, docks, bottom_items, unseen, menu, effects>>

\* The observer closures registered in new: |_, _, cx| cx.notify().
ObserveDock(d) ==
    /\ Quiet
    /\ dirty' = TRUE
    /\ UNCHANGED <<side, docks, bottom_items, view, unseen, menu, effects>>

ObserveSettings ==
    /\ Quiet
    /\ dirty' = TRUE
    /\ UNCHANGED <<side, docks, bottom_items, view, unseen, menu, effects>>

add_bottom_item(item) ==
    /\ Quiet
    /\ unseen < MaxUnseen
    /\ Len(bottom_items) < MaxBottomItems
    /\ bottom_items' = Append(bottom_items, item)
    /\ dirty' = TRUE
    /\ unseen' = unseen + 1
    /\ UNCHANGED <<side, docks, view, menu, effects>>

Render ==
    /\ Quiet
    /\ view' = render(side, docks, bottom_items)
    /\ dirty' = FALSE
    /\ unseen' = 0
    /\ UNCHANGED <<side, docks, bottom_items, menu, effects>>

\* A click on a button of the drawn view runs its on_click closure.
Click(button) ==
    /\ Quiet
    /\ button \in Buttons(view)
    /\ effects' = OnClick(button)
    /\ UNCHANGED <<side, docks, bottom_items, dirty, view, unseen, menu>>

\* A right click on a button runs its menu closure.
OpenMenu(button, valid) ==
    /\ Quiet
    /\ button \in Buttons(view)
    /\ menu' = [open |-> TRUE, panel |-> button.name,
                dock_position |-> button.dock_position, valid |-> valid,
                entries |-> BuildMenu(1, button.dock_position, valid, <<>>),
                selected |-> 0]
    /\ UNCHANGED <<side, docks, bottom_items, dirty, view, unseen, effects>>

\* Selecting the k-th entry of the open menu runs its handler.
SelectEntry(k) ==
    /\ menu.open
    /\ effects = <<>>
    /\ k \in 1..Len(menu.entries)
    /\ effects' = <<[op |-> "set_position", panel |-> menu.panel,
                     position |-> menu.entries[k].position]>>
    /\ menu' = [menu EXCEPT !.selected = k]
    /\ UNCHANGED <<side, docks, bottom_items, dirty, view, unseen>>

\* The window has carried out the handler's calls; an open menu is dismissed.
Settle ==
    /\ ~Quiet
    /\ effects' = <<>>
    /\ menu' = NoMenu
    /\ UNCHANGED <<side, docks, bottom_items, dirty, view, unseen>>

\* Names the panels of the docks carry: both groups of the left side and
\* the top group of the right side.
PanelNames ==
    {"Project Panel", "GitPanel", "TerminalPanel", "DebugPanel", "AgentPanel"}

\* Every name of the two static tables, the unspaced spellings of two of
\* them, and a name neither table has.
AllPanelNames ==
    {"Project Panel", "GitPanel", "Outline Panel", "CollabPanel",
     "TerminalPanel", "DebugPanel",
     "AgentPanel", "AgentsPanel", "NotificationPanel",
     "ProjectPanel", "OutlinePanel", "SearchPanel"}

\* Names of panels that may lack an icon or an icon tooltip.
HideableNames == {"GitPanel", "TerminalPanel", "AgentPanel", "SearchPanel"}

\* Names of the panels whose buttons are clicked.
ClickedNames == {"Project Panel", "TerminalPanel", "AgentPanel"}

\* Panels that have an icon and an icon tooltip.
ShownPanels(names) == {Panel(n, TRUE, TRUE) : n \in names}

AnyPanels(names) == {Panel(n, i, t) : n \in names, i \in BOOLEAN, t \in BOOLEAN}

DockActivity ==
    \/ \E d \in DockIds : \E i \in 0..MaxPanels : ActivatePanel(d, i)
    \/ \E d \in DockIds : \E open \in BOOLEAN : SetOpen(d, open)

Notifications ==
    \/ \E d \in DockIds : ObserveDock(d)
    \/ ObserveSettings

\* The docks change, notify the view, and the view is drawn.
Next ==
    \/ \E d \in DockIds : \E p \in ShownPanels(PanelNames) : AddPanel(d, p)
    \/ DockActivity
    \/ Notifications
    \/ Render

Spec == Init /\ [][Next]_vars

\* The host injects items while the docks are filled.
NextItems ==
    \/ \E d \in DockIds : \E p \in ShownPanels(PanelNames) : AddPanel(d, p)
    \/ \E item \in ItemIds : add_bottom_item(item)
    \/ Notifications
    \/ Render

SpecItems == Init /\ [][NextItems]_vars

\* The docks hold panels of any name, some without icon or tooltip.
NextPanels ==
    \/ \E d \in DockIds :
         \E p \in ShownPanels(AllPanelNames) \cup AnyPanels(HideableNames) : AddPanel(d, p)
    \/ ObserveSettings
    \/ Render

SpecPanels == Init /\ [][NextPanels]_vars

\* The buttons of the drawn view are clicked and their menus used.
NextUI ==
    \/ \E d \in DockIds : \E p \in ShownPanels(ClickedNames) : AddPanel(d, p)
    \/ DockActivity
    \/ Render
    \/ \E b \in Buttons(view) : Click(b)
    \/ \E b \in Buttons(view) : \E valid \in SUBSET DockPosition : OpenMenu(b, valid)
    \/ \E k \in 1..Len(POSITIONS) : SelectEntry(k)
    \/ Settle

SpecUI == Init /\ [][NextUI]_vars

(* ------------------------------ properties ---------------------------- *)

\* The view on screen was drawn from the present docks and bottom_items.
Drawn == unseen = 0

HeldPanels ==
    UNION {{docks[d].panels[i] : i \in 1..Len(docks[d].panels)} : d \in DockIds}

InTop(v, n) == \E k \in 1..Len(v.top) : v.top[k].name = n

InBottom(v, n) ==
    \E k \in 1..Len(v.bottom) : v.bottom[k].kind = "button" /\ v.bottom[k].name = n

HasButton(v, n) == InTop(v, n) \/ InBottom(v, n)

\* How many elements of a group are the button of the panel named n.
Count(group, n) ==
    Cardinality({k \in 1..Len(group) : group[k].kind = "button" /\ group[k].name = n})

\* The tables as the source spells them.
TopTable(s) ==
    IF s = "Left" THEN {"Project Panel", "GitPanel", "Outline Panel", "CollabPanel"}
    ELSE {"AgentPanel", "AgentsPanel", "NotificationPanel"}

BottomTable(s) == IF s = "Left" THEN {"TerminalPanel", "DebugPanel"} ELSE {}

\* The top table as the specification spells it.
UnspacedTopTable(s) ==
    IF s = "Left" THEN {"ProjectPanel", "GitPanel", "OutlinePanel", "CollabPanel"}
    ELSE {"AgentPanel", "AgentsPanel", "NotificationPanel"}

Listed(s, n) == n \in TopTable(s) \cup BottomTable(s)

Shown(p) == p.icon /\ p.icon_tooltip

\* C1: in a drawn view, the button of the panel at index i of a dock is
\* toggled on iff i is the dock's active_panel_index and the dock is open;
\* its action is the dock's toggle_action when toggled on, and the panel's
\* own toggle_action otherwise.
C1_ActiveFlagAndAction ==
    Drawn =>
      \A d \in DockIds : \A i \in 1..Len(docks[d].panels) : \A b \in Buttons(view) :
        (b.name = docks[d].panels[i].name) =>
          /\ b.toggle_state = ((i = docks[d].active_panel_index) /\ docks[d].is_open)
          /\ b.action = IF b.toggle_state
                        THEN DockToggleAction(docks[d].position)
                        ELSE PanelToggleAction(docks[d].panels[i])

\* An open dock shows its active panel's button toggled on beside a button
\* of the same dock that is not.
C1_Witness ==
    /\ Drawn
    /\ \E a, b \in Buttons(view) :
         /\ a.toggle_state /\ ~b.toggle_state
         /\ a.focus_handle = b.focus_handle
         /\ a.action.kind = "ToggleDock" /\ b.action.kind = "TogglePanel"

\* C2 as stated: a panel of a dock has a button iff it has an icon and an
\* icon tooltip.
C2_Original ==
    Drawn => \A p \in HeldPanels : HasButton(view, p.name) = Shown(p)

\* C2 as amended: a panel of a dock has a button iff it has an icon and an
\* icon tooltip and its name is in the top or the bottom table of the side.
C2_ButtonIffShownAndListed ==
    Drawn => \A p \in HeldPanels :
               HasButton(view, p.name) = (Shown(p) /\ Listed(side, p.name))

\* A listed panel with an icon and no tooltip, without a button, beside a
\* panel that has one.
C2_Witness ==
    /\ Drawn
    /\ \E p, q \in HeldPanels :
         /\ Listed(side, p.name) /\ p.icon /\ ~p.icon_tooltip /\ ~HasButton(view, p.name)
         /\ HasButton(view, q.name)

\* C3: in a drawn view no panel's button is in both groups, and none is
\* twice in a group.
C3_AtMostOneGroup ==
    Drawn => \A p \in HeldPanels :
               /\ ~(InTop(view, p.name) /\ InBottom(view, p.name))
               /\ Count(view.top, p.name) + Count(view.bottom, p.name) <= 1

\* One panel's button in the top group and another's in the bottom group.
C3_Witness ==
    /\ Drawn
    /\ \E p, q \in HeldPanels :
         /\ InTop(view, p.name) /\ ~InBottom(view, p.name)
         /\ InBottom(view, q.name) /\ ~InTop(view, q.name)

C5_DividerIffBothGroups ==
    Drawn =>
      view.divider = (/\ Len(view.top) > 0
                      /\ \/ \E p \in HeldPanels : InBottom(view, p.name)
                         \/ Len(bottom_items) > 0)

\* A divider above a bottom group that holds injected items only.
C5_Witness ==
    /\ Drawn
    /\ view.divider
    /\ Len(bottom_items) > 0
    /\ \A k \in 1..Len(view.bottom) : view.bottom[k].kind = "item"

Rank(position) ==
    CASE position = "Left" -> 1 [] position = "Right" -> 2 [] position = "Bottom" -> 3

\* C6: an open relocate menu has no entry for the position of the dock that
\* holds its panel, exactly one entry labelled "Dock <label>" for each other
\* position that position_is_valid accepts, in the order Left, Right, Bottom,
\* and selecting an entry calls set_position with that entry's position.
C6_RelocateMenu ==
    menu.open =>
      /\ \E d \in DockIds :
           /\ \E i \in 1..Len(docks[d].panels) : docks[d].panels[i].name = menu.panel
           /\ docks[d].position = menu.dock_position
      /\ \A q \in DockPosition :
           Cardinality({k \in 1..Len(menu.entries) : menu.entries[k].position = q})
             = IF q # menu.dock_position /\ q \in menu.valid THEN 1 ELSE 0
      /\ \A k \in 1..Len(menu.entries) :
           menu.entries[k].label = <<"Dock", Label(menu.entries[k].position)>>
      /\ \A j, k \in 1..Len(menu.entries) :
           j < k => Rank(menu.entries[j].position) < Rank(menu.entries[k].position)
      /\ IF menu.selected = 0 THEN effects = <<>>
         ELSE effects = <<[op |-> "set_position", panel |-> menu.panel,
                           position |-> menu.entries[menu.selected].position]>>

\* The panel's own position is valid too, the menu has the two other
\* entries, and the second was selected.
C6_Witness ==
    /\ menu.open
    /\ menu.valid = DockPosition
    /\ Len(menu.entries) = 2
    /\ menu.selected = 2
    /\ effects # <<>>

DockRank(d) ==
    CASE d = "left_dock" -> 1 [] d = "bottom_dock" -> 2 [] d = "right_dock" -> 3

\* The panel named m comes before the panel named n in left ++ bottom ++ right.
Precedes(m, n) ==
    \E d, e \in DockIds :
      \E i \in 1..Len(docks[d].panels) : \E j \in 1..Len(docks[e].panels) :
        /\ docks[d].panels[i].name = m
        /\ docks[e].panels[j].name = n
        /\ \/ DockRank(d) < DockRank(e)
           \/ d = e /\ i < j

InPanelOrder(group) ==
    \A j, k \in 1..Len(group) :
      (j < k /\ group[j].kind = "button" /\ group[k].kind = "button")
        => Precedes(group[j].name, group[k].name)

\* C7: in a drawn view the buttons of each group are in the order of their
\* panels in left dock ++ bottom dock ++ right dock.
C7_DockThenPanelOrder ==
    Drawn => InPanelOrder(view.top) /\ InPanelOrder(view.bottom)

\* Two top buttons, the first of a bottom-dock panel, the second of a
\* right-dock panel.
C7_Witness ==
    /\ Drawn
    /\ Len(view.top) = 2
    /\ view.top[1].focus_handle = "bottom_dock"
    /\ view.top[2].focus_handle = "right_dock"

\* The bottom group is buttons first, then exactly the given items in order.
ButtonsThenItems(group, items) ==
    LET n == Len(group) - Len(items)
    IN /\ n >= 0
       /\ \A k \in 1..Len(group) :
            IF k <= n THEN group[k].kind = "button"
            ELSE group[k] = [kind |-> "item", item |-> items[k - n]]

\* C8: bottom_items only ever grows by one item at its end, each such step
\* marks the view dirty, and every drawn view's bottom group is the buttons
\* followed by all of bottom_items in injection order.
C8_ItemsAfterButtons ==
    [][/\ (bottom_items' # bottom_items) =>
            /\ \E item \in ItemIds : bottom_items' = Append(bottom_items, item)
            /\ dirty'
       /\ (unseen' = 0) => ButtonsThenItems(view'.bottom, bottom_items')]_vars

\* A drawn bottom group of one button followed by two different items.
C8_Witness ==
    /\ Drawn
    /\ Len(bottom_items) = 2
    /\ bottom_items[1] # bottom_items[2]
    /\ Len(view.bottom) = 3
    /\ view.bottom[1].kind = "button"

\* C9: the effects of a click are two, first the focus move to the handle
\* of the dock that holds the button's panel, then the dispatch of the
\* button's action.
C9_FocusThenDispatch ==
    (effects # <<>> /\ ~menu.open) =>
      /\ Len(effects) = 2
      /\ effects[1].op = "focus"
      /\ effects[2].op = "dispatch_action"
      /\ \E b \in Buttons(view) :
           /\ effects[1].handle = b.focus_handle
           /\ effects[2].action = b.action
           /\ \E i \in 1..Len(docks[b.focus_handle].panels) :
                docks[b.focus_handle].panels[i].name = b.name

\* The toggled-on button of the bottom dock was clicked.
C9_Witness ==
    /\ ~menu.open
    /\ effects = <<[op |-> "focus", handle |-> "bottom_dock"],
                   [op |-> "dispatch_action", action |-> DockToggleAction("Bottom")]>>

\* C10: with the docks changing and notifying, a step that marks the view
\* dirty (an observer's cx.notify()) changes nothing else; a draw
\* clears the mark and sets each button's flag from the docks as they are
\* then; and a panel that has a button before and after a draw keeps its
\* group.
C10_NotifyThenRedraw ==
    [][/\ (~dirty /\ dirty') =>
            UNCHANGED <<side, docks, bottom_items, view, unseen, menu, effects>>
       /\ (view' # view \/ (dirty /\ ~dirty')) =>
            /\ ~dirty'
            /\ docks' = docks
            /\ \A d \in DockIds : \A i \in 1..Len(docks'[d].panels) :
                 \A b \in Buttons(view') :
                   (b.name = docks'[d].panels[i].name) =>
                     (b.toggle_state <=>
                        (i = docks'[d].active_panel_index /\ docks'[d].is_open))
            /\ \A p \in HeldPanels :
                 HasButton(view', p.name) =>
                   /\ InTop(view, p.name) => InTop(view', p.name)
                   /\ InBottom(view, p.name) => InBottom(view', p.name)]_vars

\* After a redraw the second panel of the left dock is the toggled-on one
\* and the first panel's button is off.
C10_Witness ==
    /\ Drawn
    /\ ~dirty
    /\ docks["left_dock"].active_panel_index = 2
    /\ \E a, b \in Buttons(view) :
         /\ a.name = docks["left_dock"].panels[1].name /\ ~a.toggle_state
         /\ b.name = docks["left_dock"].panels[2].name /\ b.toggle_state

====
